---- MODULE Spec2Model ----
(***************************************************************************)
(* Model of termchat's terminal renderer, src/src/ui.rs.                   *)
(*                                                                         *)
(* The application state (ApplicationState) is owned by the event loop;    *)
(* `draw` borrows it read-only and produces one frame: the transcript      *)
(* panel ("LAN Room"), the input panel ("Your message") and the cursor.    *)
(*                                                                         *)
(* Text is a sequence of one-character strings.  A Span is a record        *)
(* [text, fg]; a display line (tui's Spans) is a sequence of Span.         *)
(* The bar of the progress overlay is kept run-length encoded, as the      *)
(* number of '#' and of '-' cells between the brackets.                    *)
(***************************************************************************)
EXTENDS Integers, Sequences, FiniteSets, TLC

VARIABLES
    messages,             \* ApplicationState: the chat log, oldest first
    users_id,             \* ApplicationState: user -> color index
    progress,             \* ApplicationState: None or <<current, max>>
    input,                \* ApplicationState: the input buffer
    input_cursor,         \* ApplicationState: cursor offset in the buffer
    scroll_messages_view, \* ApplicationState: transcript scroll offset
    term,                 \* the terminal: frame.size()
    build,                \* the build profile: "debug" or "release"
    frame,                \* the Frame of the latest draw call; NoFrame once the
                          \* event loop has gone on to change the state
    first,                \* observer: the first frame drawn, with the state it
                          \* was drawn from (Off: the observer is not watching)
    alive                 \* FALSE once a draw call has panicked

appVars == <<messages, users_id, progress, input, input_cursor, scroll_messages_view>>
vars == <<messages, users_id, progress, input, input_cursor, scroll_messages_view,
          term, build, frame, first, alive>>

None == <<>>   \* Option::None; Some((current, max)) is <<current, max>>
NoFrame == [status |-> "none"]
Off == [mode |-> "off"]
Armed == [mode |-> "armed"]

(***************************************************************************)
(* Bounds of the model.                                                    *)
(***************************************************************************)
MaxLog == 2        \* log entries in Spec
MaxLoopInput == 1  \* input characters in Spec
MaxFramesLog == 1  \* log entries in SpecFrames
MaxFramesInput == 1 \* input characters in SpecFrames
MaxTotal == 11     \* largest transfer total in SpecBar
MaxBarWidth == 34  \* widest terminal in SpecBar
MaxInput == 5      \* longest input buffer in SpecInput
MaxTail == 2       \* longest random tail of a content string in SpecParse
MaxUsers == 5      \* registered remote users in SpecColor

(***************************************************************************)
(* Program constants.                                                      *)
(***************************************************************************)
U16 == 65536            \* chunk.width, chunk.x, chunk.y are u16
BarMargin == 20         \* panel_width - 20
InputHeight == 6        \* Constraint::Length(6)
BorderCols == 2         \* chunk.width - 2
BorderOffset == 1       \* chunk.x + 1, chunk.y + 1
F32Bits == 24           \* significand of an f32

(***************************************************************************)
(* Text helpers.                                                           *)
(***************************************************************************)
RECURSIVE Concat(_)
Concat(ss) == IF ss = <<>> THEN <<>> ELSE Head(ss) \o Concat(Tail(ss))

Min(a, b) == IF a < b THEN a ELSE b

\* str::starts_with
StartsWith(s, p) == Len(s) >= Len(p) /\ SubSeq(s, 1, Len(p)) = p

\* position (1-based) of the first occurrence of p in s, 0 if there is none
RECURSIVE FindFrom(_, _, _)
FindFrom(s, p, i) ==
    IF i + Len(p) - 1 > Len(s) THEN 0
    ELSE IF SubSeq(s, i, i + Len(p) - 1) = p THEN i
    ELSE FindFrom(s, p, i + 1)

\* str::splitn(2, p): at most two parts, cut at the first occurrence of p
Splitn2(s, p) ==
    LET at == FindFrom(s, p, 1) IN
    IF at = 0 THEN <<s>>
    ELSE <<SubSeq(s, 1, at - 1), SubSeq(s, at + Len(p), Len(s))>>

Span(text, fg) == [text |-> text, fg |-> fg]
Raw(text) == [text |-> text, fg |-> "Default"]

(***************************************************************************)
(* u16 and f32 arithmetic.                                                 *)
(*                                                                         *)
(* A u16 subtraction that underflows panics in a debug build and wraps in  *)
(* a release build.                                                        *)
(*                                                                         *)
(* An f32 is [m, k], the value m * 2^(-k), with m = 0 or                   *)
(* 2^23 <= m <= 2^24.  Integers below 2^24 convert to f32 exactly;         *)
(* division and multiplication round to nearest, ties to even.  All        *)
(* intermediate values stay below 2^31 for totals below 128.               *)
(***************************************************************************)
Underflows(a, b) == a < b
WrappingSubU16(a, b) == (a + U16 - b) % U16

Pow2(n) == 2 ^ n

RoundHalfEven(q, r, d) ==
    IF 2 * r > d \/ (2 * r = d /\ q % 2 = 1) THEN q + 1 ELSE q

RECURSIVE ScaleUp(_, _, _)
ScaleUp(n, b, k) ==
    IF n >= b * Pow2(F32Bits - 1) THEN [n |-> n, k |-> k]
    ELSE ScaleUp(2 * n, b, k + 1)

\* a as f32 / b as f32, for 0 <= a < 2^16 and 0 < b < 128
F32Div(a, b) ==
    IF a = 0 THEN [m |-> 0, k |-> 0]
    ELSE LET s == ScaleUp(a, b, 0)
         IN  [m |-> RoundHalfEven(s.n \div b, s.n % b, b), k |-> s.k]

RECURSIVE ExcessBits(_, _)
ExcessBits(p, s) ==
    IF p \div Pow2(s) < Pow2(F32Bits) THEN s ELSE ExcessBits(p, s + 1)

\* c as f32 * f, for 0 <= c < 128
F32Mul(c, f) ==
    LET p == c * f.m
        s == ExcessBits(p, 0)
    IN  IF s = 0 THEN [m |-> p, k |-> f.k]
        ELSE [m |-> RoundHalfEven(p \div Pow2(s), p % Pow2(s), Pow2(s)),
              k |-> f.k - s]

\* f as usize: truncation toward zero
F32ToUsize(f) ==
    IF f.k >= 0 THEN f.m \div Pow2(f.k) ELSE f.m * Pow2(0 - f.k)

SaturatingSub(a, b) == IF a >= b THEN a - b ELSE 0

(***************************************************************************)
(* add_progress_bar.  The result is [panic, messages].                     *)
(***************************************************************************)
Panicked == [panic |-> TRUE]

ProgressLine(ui_current, ui_remaining) ==
    << Span(<<"S","e","n","d","i","n","g",":"," ">>, "LightGreen"),
       [text |-> [open |-> "[", hashes |-> ui_current,
                  dashes |-> ui_remaining, close |-> "]"],
        fg |-> "LightGreen"] >>

add_progress_bar(msgs, panel_width, prog, profile) ==
    IF Underflows(panel_width, BarMargin) /\ profile = "debug" THEN Panicked
    ELSE
        LET current == prog[1]
            max == prog[2]
            width == WrappingSubU16(panel_width, BarMargin)
            ui_step == F32Div(width, max)
            ui_current == F32ToUsize(F32Mul(current, ui_step))
            ui_remaining == F32ToUsize(F32Mul(SaturatingSub(max, current), ui_step))
        IN  [panic |-> FALSE,
             messages |-> <<ProgressLine(ui_current, ui_remaining)>> \o msgs]

(***************************************************************************)
(* parse_content.                                                          *)
(***************************************************************************)
SEND_COMMAND == <<"?","s","e","n","d">>

color_command(content, command) ==
    LET parts == Splitn2(content, command)
    IN  [index \in 1..Len(parts) |->
            IF index = 1 THEN Span(command, "LightYellow")
            ELSE Raw(parts[index])]

parse_content_any(content) ==
    IF FindFrom(content, SEND_COMMAND, 1) # 0
    THEN color_command(content, SEND_COMMAND)
    ELSE <<Raw(content)>>

parse_content(content) ==
    IF StartsWith(content, SEND_COMMAND)
    THEN color_command(content, SEND_COMMAND)
    ELSE <<Raw(content)>>

(***************************************************************************)
(* draw_messages_panel: one display line per log entry.                    *)
(***************************************************************************)
MESSAGE_COLORS == <<"Blue", "Yellow", "Cyan", "Magenta">>

\* chrono's format("%H:%M:%S "); a date is the second of the day
Digits == <<"0", "1", "2", "3", "4", "5", "6", "7", "8", "9">>
TwoDigits(n) == <<Digits[(n \div 10) + 1], Digits[(n % 10) + 1]>>
FormatDate(date) ==
    TwoDigits(date \div 3600) \o <<":">> \o TwoDigits((date \div 60) % 60)
        \o <<":">> \o TwoDigits(date % 60) \o <<" ">>

MessageColor_saturating(table, user) ==
    IF user \in DOMAIN table
    THEN MESSAGE_COLORS[Min(table[user], Len(MESSAGE_COLORS) - 1) + 1]
    ELSE "Green"

MessageColor(table, user) ==
    IF user \in DOMAIN table
    THEN MESSAGE_COLORS[(table[user] % Len(MESSAGE_COLORS)) + 1]
    ELSE "Green"

MessageLine(message, table) ==
    LET color == MessageColor(table, message.user)
        date == FormatDate(message.date)
    IN  CASE message.kind = "Connection" ->
                << Span(date, "DarkGray"),
                   Span(message.user, color),
                   Span(<<" ","i","s"," ","o","n","l","i","n","e">>, color) >>
          [] message.kind = "Disconnection" ->
                << Span(date, "DarkGray"),
                   Span(message.user, color),
                   Span(<<" ","i","s"," ","o","f","f","l","i","n","e">>, color) >>
          [] message.kind = "Content" ->
                << Span(date, "DarkGray"),
                   Span(message.user, color),
                   Span(<<":"," ">>, color) >> \o parse_content(message.content)
          [] message.kind = "Termchat" ->
                LET user_color == IF message.msg_type = "Notification"
                                  THEN "Yellow" ELSE "Red"
                    content_color == IF message.msg_type = "Notification"
                                     THEN "LightYellow" ELSE "LightRed"
                IN  << Span(date, "DarkGray"),
                       Span(message.user, user_color),
                       Span(message.content, content_color) >>

\* state.messages().iter().rev().map(..).collect()
MessageLines_oldest_first(log, table) ==
    [i \in 1..Len(log) |-> MessageLine(log[i], table)]

MessageLines(log, table) ==
    [i \in 1..Len(log) |-> MessageLine(log[Len(log) + 1 - i], table)]

\* The result is [panic, lines, scroll].
draw_messages_panel(state, chunk, profile) ==
    LET lines == MessageLines(state.messages, state.users_id)
        bar == IF state.progress # None
               THEN add_progress_bar(lines, chunk.width, state.progress, profile)
               ELSE [panic |-> FALSE, messages |-> lines]
    IN  IF bar.panic THEN Panicked
        ELSE [panic |-> FALSE,
              title |-> "LAN Room",
              lines |-> bar.messages,
              scroll |-> <<state.scroll_messages_view % U16, 0>>]

(***************************************************************************)
(* draw_input_panel.  split_each (util) and ui_input_cursor (state) are    *)
(* not part of ui.rs: fixed-width chunks, and (offset mod width,           *)
(* offset div width), whose zero divisor panics in every build.            *)
(***************************************************************************)
split_each(text, width) ==
    [i \in 1..((Len(text) + width - 1) \div width) |->
        SubSeq(text, (i - 1) * width + 1, Min(i * width, Len(text)))]

ui_input_cursor(cursor, width) ==
    <<(cursor % width) % U16, (cursor \div width) % U16>>

\* frame.set_cursor(chunk.x + 1 + input_cursor.0, chunk.y + 1 + input_cursor.1)
CursorPosition_no_border(chunk, input_cursor_uv, profile) ==
    LET x == chunk.x + input_cursor_uv[1]
        y == chunk.y + input_cursor_uv[2]
    IN  IF profile = "debug" /\ (x >= U16 \/ y >= U16) THEN Panicked
        ELSE [panic |-> FALSE, at |-> <<x % U16, y % U16>>]

CursorPosition_swapped(chunk, input_cursor_uv, profile) ==
    LET x1 == chunk.x + BorderOffset
        x2 == (x1 % U16) + input_cursor_uv[2]
        y1 == chunk.y + BorderOffset
        y2 == (y1 % U16) + input_cursor_uv[1]
    IN  IF profile = "debug" /\ (x1 >= U16 \/ x2 >= U16 \/ y1 >= U16 \/ y2 >= U16)
        THEN Panicked
        ELSE [panic |-> FALSE, at |-> <<x2 % U16, y2 % U16>>]

CursorPosition(chunk, input_cursor_uv, profile) ==
    LET x1 == chunk.x + BorderOffset
        x2 == (x1 % U16) + input_cursor_uv[1]
        y1 == chunk.y + BorderOffset
        y2 == (y1 % U16) + input_cursor_uv[2]
    IN  IF profile = "debug" /\ (x1 >= U16 \/ x2 >= U16 \/ y1 >= U16 \/ y2 >= U16)
        THEN Panicked
        ELSE [panic |-> FALSE, at |-> <<x2 % U16, y2 % U16>>]

InputLines_drop_partial(text, inner_width) ==
    LET chunks == split_each(text, inner_width)
    IN  [i \in 1..(Len(text) \div inner_width) |-> <<Raw(chunks[i])>>]

InputLines(text, inner_width) ==
    LET chunks == split_each(text, inner_width)
    IN  [i \in 1..Len(chunks) |-> <<Raw(chunks[i])>>]

\* The result is [panic, inner_width, lines, cursor].
draw_input_panel(state, chunk, profile) ==
    IF Underflows(chunk.width, BorderCols) /\ profile = "debug" THEN Panicked
    ELSE
        LET inner_width == WrappingSubU16(chunk.width, BorderCols)
        IN  IF inner_width = 0 THEN Panicked
            ELSE
                LET at == CursorPosition(
                              chunk, ui_input_cursor(state.input_cursor, inner_width),
                              profile)
                IN  IF at.panic THEN Panicked
                    ELSE [panic |-> FALSE,
                          title |-> "Your message",
                          inner_width |-> inner_width,
                          lines |-> InputLines(state.input, inner_width),
                          cursor |-> at.at]

(***************************************************************************)
(* draw.  The layout puts the 6-row input panel below the transcript;      *)
(* the model keeps the terminal at least 6 rows high.                      *)
(***************************************************************************)
MessagesChunk(size) ==
    [x |-> 0, y |-> 0, width |-> size.width, height |-> size.height - InputHeight]

InputChunk(size) ==
    [x |-> 0, y |-> size.height - InputHeight, width |-> size.width,
     height |-> InputHeight]

State ==
    [messages |-> messages, users_id |-> users_id, progress |-> progress,
     input |-> input, input_cursor |-> input_cursor,
     scroll_messages_view |-> scroll_messages_view]

RenderFrame(state, size, profile) ==
    LET top == draw_messages_panel(state, MessagesChunk(size), profile)
        bottom == draw_input_panel(state, InputChunk(size), profile)
    IN  IF top.panic \/ bottom.panic THEN [status |-> "panic"]
        ELSE [status |-> "ok",
              messages_title |-> top.title,
              messages |-> top.lines,
              scroll |-> top.scroll,
              input_title |-> bottom.title,
              inner_width |-> bottom.inner_width,
              input |-> bottom.lines,
              cursor |-> bottom.cursor]

\* The observer keeps the first frame drawn and notes a later draw call on
\* the same state and size.
Observe(f) ==
    IF first = Armed /\ f.status = "ok"
    THEN [mode |-> "seen", state |-> State, size |-> term, frame |-> f,
          again |-> FALSE]
    ELSE IF first.mode = "seen" /\ first.state = State /\ first.size = term
    THEN [first EXCEPT !.again = TRUE]
    ELSE first

draw_persisting_overlay ==
    /\ alive
    /\ LET f == RenderFrame(State, term, build)
       IN  /\ frame' = f
           /\ first' = Observe(f)
           /\ alive' = (f.status = "ok")
    /\ messages' = IF progress = None THEN messages
                   ELSE <<[user |-> <<"S","e","n","d","i","n","g">>, date |-> 0,
                           kind |-> "Termchat", content |-> <<>>,
                           msg_type |-> "Notification"]>> \o messages
    /\ UNCHANGED <<users_id, progress, input, input_cursor, scroll_messages_view,
                   term, build>>

draw ==
    /\ alive
    /\ LET f == RenderFrame(State, term, build)
       IN  /\ frame' = f
           /\ first' = Observe(f)
           /\ alive' = (f.status = "ok")
    /\ UNCHANGED <<messages, users_id, progress, input, input_cursor,
                   scroll_messages_view, term, build>>

(***************************************************************************)
(* The event loop's changes of the state (the state's owner is not part    *)
(* of ui.rs).  The log is append-only; a color index is assigned on first  *)
(* sight of a user, never to the local user; 0 <= completed <= total and   *)
(* total > 0 while a transfer is active; 0 <= cursor <= length; the        *)
(* scroll offset is clamped to the transcript length.                      *)
(***************************************************************************)
Me == <<"m", "e">>
Ann == <<"a", "n", "n">>
Termchat == <<"t", "e", "r", "m", "c", "h", "a", "t">>

Entry(user, date, kind, content, msg_type) ==
    [user |-> user, date |-> date, kind |-> kind, content |-> content,
     msg_type |-> msg_type]

LoopEntries ==
    { Entry(Ann, 34210, "Connection", <<>>, "-"),
      Entry(Me, 86399, "Content", <<"?","s","e","n","d"," ","f">>, "-") }
LoopTotals == {1}
LoopChars == {"a"}
LoopSizes == {[width |-> 12, height |-> 6], [width |-> 30, height |-> 8]}
Builds == {"debug", "release"}

Stale == frame' = NoFrame /\ UNCHANGED <<first, alive, build>>

AddMessage(maxlog) ==
    /\ alive
    /\ Len(messages) < maxlog
    /\ \E e \in LoopEntries : messages' = Append(messages, e)
    /\ Stale
    /\ UNCHANGED <<users_id, progress, input, input_cursor, scroll_messages_view, term>>

RegisterUser ==
    /\ alive
    /\ Ann \notin DOMAIN users_id
    /\ users_id' = [u \in DOMAIN users_id \cup {Ann} |->
                       IF u = Ann THEN Cardinality(DOMAIN users_id) ELSE users_id[u]]
    /\ Stale
    /\ UNCHANGED <<messages, progress, input, input_cursor, scroll_messages_view, term>>

StartTransfer ==
    /\ alive
    /\ progress = None
    /\ \E total \in LoopTotals : progress' = <<0, total>>
    /\ Stale
    /\ UNCHANGED <<messages, users_id, input, input_cursor, scroll_messages_view, term>>

AdvanceTransfer ==
    /\ alive
    /\ progress # None
    /\ progress[1] < progress[2]
    /\ \E done \in (progress[1] + 1)..progress[2] : progress' = <<done, progress[2]>>
    /\ Stale
    /\ UNCHANGED <<messages, users_id, input, input_cursor, scroll_messages_view, term>>

EndTransfer ==
    /\ alive
    /\ progress # None
    /\ progress' = None
    /\ Stale
    /\ UNCHANGED <<messages, users_id, input, input_cursor, scroll_messages_view, term>>

InputWrite(maxinput) ==
    /\ alive
    /\ Len(input) < maxinput
    /\ \E c \in LoopChars :
          input' = SubSeq(input, 1, input_cursor) \o <<c>>
                      \o SubSeq(input, input_cursor + 1, Len(input))
    /\ input_cursor' = input_cursor + 1
    /\ Stale
    /\ UNCHANGED <<messages, users_id, progress, scroll_messages_view, term>>

InputRemove ==
    /\ alive
    /\ input_cursor > 0
    /\ input' = SubSeq(input, 1, input_cursor - 1)
                   \o SubSeq(input, input_cursor + 1, Len(input))
    /\ input_cursor' = input_cursor - 1
    /\ Stale
    /\ UNCHANGED <<messages, users_id, progress, scroll_messages_view, term>>

InputMoveCursor ==
    /\ alive
    /\ \E to \in {input_cursor - 1, input_cursor + 1} :
          /\ 0 <= to
          /\ to <= Len(input)
          /\ input_cursor' = to
    /\ Stale
    /\ UNCHANGED <<messages, users_id, progress, input, scroll_messages_view, term>>

Scroll ==
    /\ alive
    /\ \E to \in {scroll_messages_view - 1, scroll_messages_view + 1} :
          /\ 0 <= to
          /\ to <= Len(messages)
          /\ scroll_messages_view' = to
    /\ Stale
    /\ UNCHANGED <<messages, users_id, progress, input, input_cursor, term>>

Resize ==
    /\ alive
    /\ \E size \in LoopSizes : size # term /\ term' = size
    /\ Stale
    /\ UNCHANGED <<messages, users_id, progress, input, input_cursor,
                   scroll_messages_view>>

(***************************************************************************)
(* Spec: the event loop, changing the state and drawing.                   *)
(* SpecFrames: the loop with the observer watching, on smaller bounds     *)
(* and without two of the changes (a transfer advancing, the cursor       *)
(* moving), which keeps the pairs of states to compare within reach.       *)
(***************************************************************************)
InitState ==
    /\ messages = <<>>
    /\ users_id = <<>>
    /\ progress = None
    /\ input = <<>>
    /\ input_cursor = 0
    /\ scroll_messages_view = 0

Init ==
    /\ InitState
    /\ term \in LoopSizes
    /\ build \in Builds
    /\ frame = NoFrame
    /\ first = Off
    /\ alive = TRUE

LoopNext(maxlog, maxinput) ==
    \/ AddMessage(maxlog)
    \/ RegisterUser
    \/ StartTransfer
    \/ AdvanceTransfer
    \/ EndTransfer
    \/ InputWrite(maxinput)
    \/ InputRemove
    \/ InputMoveCursor
    \/ Scroll
    \/ Resize
    \/ draw

Next == LoopNext(MaxLog, MaxLoopInput)

Spec == Init /\ [][Next]_vars

InitFrames ==
    /\ InitState
    /\ term \in LoopSizes
    /\ build \in Builds
    /\ frame = NoFrame
    /\ first = Armed
    /\ alive = TRUE

NextFrames ==
    \/ AddMessage(MaxFramesLog)
    \/ RegisterUser
    \/ StartTransfer
    \/ EndTransfer
    \/ InputWrite(MaxFramesInput)
    \/ InputRemove
    \/ Scroll
    \/ Resize
    \/ draw

SpecFrames == InitFrames /\ [][NextFrames]_vars

(***************************************************************************)
(* Specifications of one draw call on a state drawn from a bounded set.    *)
(***************************************************************************)
Strings(chars, n) == UNION {[1..k -> chars] : k \in 0..n}

InitRest ==
    /\ build \in Builds
    /\ frame = NoFrame
    /\ first = Off
    /\ alive = TRUE

\* SpecBar: an active transfer on terminals of every width up to MaxBarWidth
InitBar ==
    /\ messages = <<>>
    /\ users_id = <<>>
    /\ progress \in {<<c, t>> : c \in 0..MaxTotal, t \in 1..MaxTotal}
    /\ progress[1] <= progress[2]
    /\ input = <<>>
    /\ input_cursor = 0
    /\ scroll_messages_view = 0
    /\ term \in {[width |-> w, height |-> InputHeight] : w \in 0..MaxBarWidth}
    /\ InitRest

SpecBar == InitBar /\ [][draw]_vars

\* SpecParse: one Content entry
ParseChars == {"?", "s", "e", "n", "d", "a"}
ParseHeads ==
    { <<>>, <<"?","s","e","n","d">>, <<"?","s","e","n">>,
      <<"a","?","s","e","n","d">>, <<" ","?","s","e","n","d">>,
      <<"?","s","e","n","d","?","s","e","n","d">>,
      <<"?","s","e","n","d"," ","?","s","e","n","d"," ">> }
ParseContents == {h \o t : h \in ParseHeads, t \in Strings(ParseChars, MaxTail)}

InitParse ==
    /\ \E c \in ParseContents, u \in {Me, Ann} :
          messages = <<Entry(u, 34210, "Content", c, "-")>>
    /\ users_id \in {<<>>, [u \in {Ann} |-> 0]}
    /\ progress = None
    /\ input = <<>>
    /\ input_cursor = 0
    /\ scroll_messages_view = 0
    /\ term = [width |-> 30, height |-> 8]
    /\ InitRest

SpecParse == InitParse /\ [][draw]_vars

\* SpecInput: an input buffer with its cursor, on narrow terminals
InputChars == {"a", "b"}
InputSizes ==
    {[width |-> w, height |-> h] : w \in {0, 1, 2, 3, 4, 5, 12}, h \in {6, 9}}

InitInput ==
    /\ messages = <<>>
    /\ users_id = <<>>
    /\ progress = None
    /\ input \in Strings(InputChars, MaxInput)
    /\ input_cursor \in 0..Len(input)
    /\ scroll_messages_view = 0
    /\ term \in InputSizes
    /\ InitRest

SpecInput == InitInput /\ [][draw]_vars

\* SpecColor: one entry, by a user that may have a color index; indices are
\* given on first sight, so k registered users hold the indices 0..k-1
RemoteUsers == {<<"u", Digits[i + 1]>> : i \in 1..MaxUsers}
ColorTables ==
    UNION { {t \in [S -> 0..(Cardinality(S) - 1)] :
                \A u, v \in S : u # v => t[u] # t[v]} : S \in SUBSET RemoteUsers }
ColorEntries ==
    {Entry(u, 86399, k, <<"h", "i">>, "-") :
        u \in RemoteUsers \cup {Me}, k \in {"Connection", "Disconnection", "Content"}}
    \cup {Entry(Termchat, 0, "Termchat", <<"h", "i">>, t) : t \in {"Notification", "Error"}}

InitColor ==
    /\ \E e \in ColorEntries : messages = <<e>>
    /\ users_id \in ColorTables
    /\ progress = None
    /\ input = <<>>
    /\ input_cursor = 0
    /\ scroll_messages_view = 0
    /\ term = [width |-> 30, height |-> 8]
    /\ build = "release"
    /\ frame = NoFrame
    /\ first = Off
    /\ alive = TRUE

SpecColor == InitColor /\ [][draw]_vars

(***************************************************************************)
(* Properties.                                                             *)
(***************************************************************************)
Drawn == frame.status = "ok"
Bar == frame.messages[1][2].text
IsOverlay(line) == line[1].text = <<"S","e","n","d","i","n","g",":"," ">>
Panel == InputChunk(term)

\* C1 (SpecBar): with 0 <= completed <= total, total > 0 and panel_width >= 20,
\* the overlay has floor(completed * W / total) '#' cells and
\* floor((total - completed) * W / total) '-' cells, W = panel_width - 20;
\* their sum never exceeds W, and the bar is full ('#' = W) when
\* completed = total.
C1_BarCellCounts ==
    (Drawn /\ progress # None /\ term.width >= BarMargin) =>
        LET W == term.width - BarMargin
            completed == progress[1]
            total == progress[2]
        IN  /\ Bar.hashes = (completed * W) \div total
            /\ Bar.dashes = ((total - completed) * W) \div total
            /\ Bar.hashes + Bar.dashes <= W
            /\ (completed = total => Bar.hashes = W)

\* C2 (SpecBar): with a transfer active and a transcript panel narrower than
\* 20 columns, a draw call completes and the bar has no '#' and no '-' cell.
C2_NarrowPanelIsClamped ==
    (frame.status # "none" /\ progress # None /\ term.width >= BorderCols + 1
        /\ term.width < BarMargin) =>
        (Drawn /\ Bar.hashes = 0 /\ Bar.dashes = 0)

\* C3 (SpecInput): for every input panel width, widths 0 and 1 included, a draw
\* call completes and the usable text width it works with has not underflowed:
\* it is at most the panel width.
C3_DegenerateWidthIsGuarded ==
    (frame.status # "none" /\ term.width < BorderCols) =>
        (Drawn /\ frame.inner_width <= term.width)

\* C4 (SpecInput): the cursor is set at (panel.x + 1 + offset mod width,
\* panel.y + 1 + offset div width), and that is the place of the character at
\* the offset in the split lines: a cursor inside the buffer is on its own
\* character, and a cursor at the end of the buffer is right after the last
\* character, at column 0 of a new row when the length is a multiple of width.
C4_CursorMatchesSplitting ==
    Drawn =>
        LET width == frame.inner_width
            col == input_cursor % width
            row == input_cursor \div width
            lines == frame.input
        IN  /\ frame.cursor = <<Panel.x + 1 + col, Panel.y + 1 + row>>
            /\ col < width
            /\ input_cursor < Len(input) =>
                  /\ row + 1 <= Len(lines)
                  /\ col + 1 <= Len(lines[row + 1][1].text)
                  /\ lines[row + 1][1].text[col + 1] = input[input_cursor + 1]
            /\ (input_cursor = Len(input) /\ col = 0) => row = Len(lines)
            /\ (input_cursor = Len(input) /\ col > 0) =>
                  /\ row + 1 = Len(lines)
                  /\ col = Len(lines[row + 1][1].text)

C4_Witness ==
    /\ Drawn
    /\ frame.inner_width = 2
    /\ Len(input) = 4
    /\ input_cursor = 4
    /\ frame.cursor = <<Panel.x + 1, Panel.y + 3>>

\* C5 (SpecInput): the input lines are one unstyled run each, every line but
\* the last is exactly width characters long, the last is 1..width long, and
\* the lines concatenated in order are the input buffer.
C5_InputLinesAreChunks ==
    Drawn =>
        LET width == frame.inner_width
            lines == frame.input
        IN  /\ \A i \in 1..Len(lines) :
                  /\ Len(lines[i]) = 1
                  /\ lines[i][1].fg = "Default"
                  /\ Len(lines[i][1].text) >= 1
                  /\ Len(lines[i][1].text) <= width
                  /\ i < Len(lines) => Len(lines[i][1].text) = width
            /\ Concat([i \in 1..Len(lines) |-> lines[i][1].text]) = input

C5_Witness ==
    /\ Drawn
    /\ frame.inner_width = 2
    /\ Len(input) = 5
    /\ Len(frame.input) = 3
    /\ frame.input[3][1].text = <<input[5]>>
    /\ input[1] # input[2]

\* C6 (Spec): the transcript's display list is the overlay line first exactly
\* when a transfer is active, then one line per log entry, newest first; at
\* scroll offset 0 the topmost line is the overlay, or else the newest entry.
C6_DisplayListOrder ==
    Drawn =>
        LET n == Len(messages)
            k == IF progress # None THEN 1 ELSE 0
            list == frame.messages
        IN  /\ Len(list) = n + k
            /\ k = 1 => IsOverlay(list[1])
            /\ \A i \in 1..n :
                  /\ list[k + i] = MessageLine(messages[n + 1 - i], users_id)
                  /\ ~IsOverlay(list[k + i])
            /\ (frame.scroll = <<0, 0>> /\ k = 0 /\ n > 0) =>
                  list[frame.scroll[1] + 1] = MessageLine(messages[n], users_id)
            /\ (frame.scroll = <<0, 0>> /\ k = 1) => IsOverlay(list[frame.scroll[1] + 1])

C6_Witness ==
    /\ Drawn
    /\ progress # None
    /\ Len(messages) = 2
    /\ messages[1] # messages[2]
    /\ frame.scroll = <<0, 0>>
    /\ Len(frame.messages) = 3

\* C7 (SpecParse): the runs of a content are those of the reference parser:
\* for a content starting with "?send", the highlighted token and then the
\* unstyled rest after the first five characters (possibly empty, later
\* tokens left in it); for any other content, the content as one unstyled run.
C7_ParseMatchesReference ==
    Drawn =>
        LET content == messages[1].content
            line == frame.messages[1]
            runs == SubSeq(line, 4, Len(line))
            token == <<"?","s","e","n","d">>
        IN  IF Len(content) >= 5 /\ \A i \in 1..5 : content[i] = token[i]
            THEN runs = << [text |-> token, fg |-> "LightYellow"],
                           [text |-> [i \in 1..(Len(content) - 5) |-> content[i + 5]],
                            fg |-> "Default"] >>
            ELSE runs = << [text |-> content, fg |-> "Default"] >>

C7_Witness ==
    /\ Drawn
    /\ Len(frame.messages[1]) = 5
    /\ FindFrom(frame.messages[1][5].text, SEND_COMMAND, 1) # 0

\* C8 (SpecColor): a Connection, Disconnection or Content entry is in the
\* palette color of its user's index mod 4 when the user is in the table,
\* and in green, which is no palette color, when it is not (the local user).
C8_UserColor ==
    (Drawn /\ messages[1].kind \in {"Connection", "Disconnection", "Content"}) =>
        LET user == messages[1].user
            line == frame.messages[1]
            palette == [r \in 0..3 |->
                           CASE r = 0 -> "Blue" [] r = 1 -> "Yellow"
                             [] r = 2 -> "Cyan" [] r = 3 -> "Magenta"]
            expected == IF user \in DOMAIN users_id
                        THEN palette[users_id[user] % 4]
                        ELSE "Green"
        IN  /\ line[2] = [text |-> user, fg |-> expected]
            /\ line[3].fg = expected
            /\ user \notin DOMAIN users_id => \A r \in 0..3 : line[2].fg # palette[r]

C8_Witness ==
    /\ Drawn
    /\ messages[1].kind = "Content"
    /\ messages[1].user \in DOMAIN users_id
    /\ users_id[messages[1].user] = 4
    /\ frame.messages[1][2].fg = "Blue"

C10_CursorInsidePanel ==
    Drawn =>
        /\ Panel.y + 1 <= frame.cursor[2]
        /\ frame.cursor[2] <= Panel.y + InputHeight - 2
        /\ Panel.x + 1 <= frame.cursor[1]
        /\ frame.cursor[1] <= Panel.x + frame.inner_width

\* C10 as amended (SpecInput): the cursor's column is inside the interior,
\* its row is never above the interior, and its row is inside the interior
\* exactly when the offset is less than 4 * width.
C10_CursorColumnInsideRowUnbounded ==
    Drawn =>
        /\ Panel.x + 1 <= frame.cursor[1]
        /\ frame.cursor[1] <= Panel.x + frame.inner_width
        /\ Panel.y + 1 <= frame.cursor[2]
        /\ (frame.cursor[2] <= Panel.y + InputHeight - 2)
              <=> (input_cursor < (InputHeight - 2) * frame.inner_width)

C10_Witness ==
    /\ Drawn
    /\ frame.inner_width = 1
    /\ input_cursor = 5
    /\ frame.cursor = <<Panel.x + 1, Panel.y + 6>>

====
